---- MODULE Spec2Model ----
(***************************************************************************)
(* K204 temperature logger (src/K204_Excel_Logger.py).                     *)
(*                                                                         *)
(* Two parts are modelled:                                                 *)
(*   - parse_k204_packet, the pure decoder of the 45-byte frame, as        *)
(*     operators; DecodeSpec applies it to a bounded family of frames;     *)
(*   - the acquisition loop of __main__ (try / except / finally included)  *)
(*     as a state machine, Spec, one action per step of the loop body, so  *)
(*     that a KeyboardInterrupt can be delivered between any two steps.    *)
(*                                                                         *)
(* Conventions.  A bytes object is a sequence of 0..255; Python index i is *)
(* TLA+ index i+1.  A Python float produced by the decoder is kept exactly *)
(* as an integer number of tenths (23.5 is 235, 235.0 is 2350): the only   *)
(* divisors are 1.0 and 10.0.  Time is counted in integer ticks.           *)
(***************************************************************************)
EXTENDS Integers, Sequences, FiniteSets, TLC

VARIABLES
    pc,               \* position of the program
    raw_data,         \* the bytes last handed to parse_k204_packet
    full_data,        \* the value last returned by read_k204_data / the decoder
    num_cycles,       \* configured cycle count (0 = endless)
    interval_sec,     \* configured interval
    matplotlib,       \* MATPLOTLIB_AVAILABLE
    cycle_count,      \* cycles started
    spent,            \* time.time() - loop_start so far in this cycle
    process_duration, \* as computed at the end of the last finished cycle
    sleep_time,       \* as computed at the end of the last finished cycle
    slept,            \* time slept by time.sleep since the cycle began
    readings,         \* history: the value read_k204_data returned, per cycle
    sheet,            \* data rows of the worksheet ws (header left out)
    file_rows,        \* data rows in the file on disk after the last good save
    x_data,           \* chart: len(x_data), the points handed to the plot
    y_data,           \* chart: per channel key, the list of plotted values
    plot_i,           \* chart: channels done by the for loop of line 328
    console,          \* per-cycle console lines: <<cycle, "reading" | "nodata">>
    stop,             \* why the loop stopped: none | count | interrupt | sink
    final_saves,      \* wb.save attempts made in the finally block
    raised            \* exception propagating out of the try statement

vars == <<pc, raw_data, full_data, num_cycles, interval_sec, matplotlib,
          cycle_count, spent, process_duration, sleep_time, slept, readings,
          sheet, file_rows, x_data, y_data, plot_i, console, stop, final_saves, raised>>

(***************************************************************************)
(* Bounds of the model.                                                    *)
(***************************************************************************)
MaxCycles == 2      \* cycles an endless run is followed for; largest N
MaxInterval == 2    \* largest configured interval, in ticks
MaxDur == 2         \* longest time one transport read can take, in ticks
MaxExtra == 1       \* bytes beyond 45 a frame given to the decoder may have

(***************************************************************************)
(* Program constants.                                                      *)
(***************************************************************************)
FrameLen == 45
STX == 2
ETX == 3
UnitMask == 128
NumChannels == 4

\* channel_keys = ["T1", "T2", "T3", "T4"]
channel_keys == <<"T1", "T2", "T3", "T4">>

\* y_data = {k: [] for k in channel_keys}
EmptySeries == [k \in {channel_keys[i] : i \in 1..Len(channel_keys)} |-> <<>>]

(***************************************************************************)
(* Python values.                                                          *)
(***************************************************************************)
None == [tag |-> "None"]
Pending == [tag |-> "pending"]          \* no call made yet
IndexError == [tag |-> "IndexError"]    \* the call raised IndexError
OL == [kind |-> "OL"]
Float(tenths) == [kind |-> "float", tenths |-> tenths]
\* The unit strings (degree sign + C, degree sign + F), written in ASCII.
Celsius == "degC"
Fahrenheit == "degF"

Min(a, b) == IF a < b THEN a ELSE b

\* Python's a & b on non-negative integers.
RECURSIVE BitAnd(_, _)
BitAnd(a, b) ==
    IF a = 0 \/ b = 0 THEN 0
    ELSE (a % 2) * (b % 2) + 2 * BitAnd(a \div 2, b \div 2)

\* Python's 1 << n.
RECURSIVE Shl1(_)
Shl1(n) == IF n = 0 THEN 1 ELSE 2 * Shl1(n - 1)

\* raw_data[i], Python index i, in range.
At(data, i) == data[i + 1]
InRange(data, i) == i < Len(data)

\* raw_data[lo:hi]: a slice is clamped to the object, it never raises.
Slice(data, lo, hi) ==
    IF Min(hi, Len(data)) <= lo THEN <<>>
    ELSE SubSeq(data, lo + 1, Min(hi, Len(data)))

\* A dict keeps insertion order; d[k] = v replaces or appends.
DictKeys(d) == [i \in 1..Len(d) |-> d[i][1]]
DictGet(d, k) == (CHOOSE i \in 1..Len(d) : d[i][1] = k) \* index of the key
Lookup(d, k) == d[DictGet(d, k)][2]
DictSet(d, k, v) ==
    IF \E i \in 1..Len(d) : d[i][1] = k
    THEN [i \in 1..Len(d) |-> IF d[i][1] = k THEN <<k, v>> ELSE d[i]]
    ELSE Append(d, <<k, v>>)

(***************************************************************************)
(* parse_k204_packet                                                       *)
(***************************************************************************)
\* len(raw_data) < 45
TooShortOffByOne(data) == Len(data) < FrameLen - 1
TooShort(data) == Len(data) < FrameLen

\* get_bit(byte_val, bit_idx)
get_bit(byte_val, bit_idx) == BitAnd(byte_val, Shl1(bit_idx)) # 0

\* unit = <deg>C if (status_byte_1 & 0x80) else <deg>F
UnitOfAnyBit(status_byte_1) == IF status_byte_1 # 0 THEN Celsius ELSE Fahrenheit
UnitOf(status_byte_1) ==
    IF BitAnd(status_byte_1, UnitMask) # 0 THEN Celsius ELSE Fahrenheit

\* One 'h' field of struct.unpack('>h...'): big-endian, two's complement.
SignedBE16(hi, lo) ==
    IF hi * 256 + lo >= 32768 THEN hi * 256 + lo - 65536 ELSE hi * 256 + lo

\* struct.unpack('>hhhh', buf) raises struct.error unless len(buf) == 8.
StructError(buf) == Len(buf) # 2 * NumChannels
Unpack(buf) == [k \in 1..NumChannels |-> SignedBE16(buf[2 * k - 1], buf[2 * k])]

\* divisor = 1.0 if bit_set else 10.0
Divisor(bit_set) == IF bit_set THEN 1 ELSE 10

\* raw_current[i] / divisor: true division; the float is kept in tenths.
FloorDiv(raw, divisor) == Float((raw \div divisor) * 10)
TrueDiv(raw, divisor) == Float((raw * 10) \div divisor)

\* 'OL' if is_ol else val
ZeroIsOL(is_ol, val) == IF is_ol \/ val.tenths = 0 THEN OL ELSE val
OLOrValue(is_ol, val) == IF is_ol THEN OL ELSE val

\* channel_key = f"T{i+1}"
channel_key(i) == "T" \o ToString(i + 1)

\* range(4)
RangeShort == 0..(NumChannels - 2)
Range4 == 0..(NumChannels - 1)

\* The for loop of lines 57-67, iterations i, i+1, ... in order.
RECURSIVE ChannelLoop(_, _, _, _, _)
ChannelLoop(i, temperatures, raw_current, ol_chan_byte, resolution_byte) ==
    IF i \notin Range4 THEN temperatures
    ELSE LET bit_set == get_bit(resolution_byte, i)
             divisor == Divisor(bit_set)
             is_ol   == get_bit(ol_chan_byte, i)
             val     == TrueDiv(raw_current[i + 1], divisor)
         IN  ChannelLoop(i + 1,
                         DictSet(temperatures, channel_key(i), OLOrValue(is_ol, val)),
                         raw_current, ol_chan_byte, resolution_byte)

parse_k204_packet(data) ==
    IF TooShort(data) THEN None
    ELSE IF ~InRange(data, 0) THEN IndexError
    ELSE IF At(data, 0) # STX THEN None
    ELSE IF ~InRange(data, FrameLen - 1) THEN IndexError
    ELSE IF At(data, FrameLen - 1) # ETX THEN None
    ELSE LET status_byte_1   == At(data, 1)
             unit            == UnitOf(status_byte_1)
             ol_chan_byte    == At(data, 39)
             resolution_byte == At(data, 43)
             buf             == Slice(data, 7, 15)
         IN  IF StructError(buf) THEN None
             ELSE [tag |-> "dict",
                   unit |-> unit,
                   current_temperatures |->
                       ChannelLoop(0, <<>>, Unpack(buf), ol_chan_byte,
                                   resolution_byte)]

(***************************************************************************)
(* Frames handed to the decoder.                                           *)
(***************************************************************************)
\* The frame layout of the device: markers, status byte, four big-endian
\* channel words at 7..14, over-limit byte at 39, resolution byte at 43.
MkFrame(len, b0, b1, chans, ol, res, b44) ==
    [i \in 1..len |->
        CASE i = 1  -> b0
          [] i = 2  -> b1
          [] i \in 8..15 -> chans[i - 7]
          [] i = 40 -> ol
          [] i = 44 -> res
          [] i = 45 -> b44
          [] OTHER  -> 0]

\* (hi, lo) of the raw words 0, 235, -50, 1000, 32767, -32768, -1.
RawWords == {<<0, 0>>, <<0, 235>>, <<255, 206>>, <<3, 232>>,
             <<127, 255>>, <<128, 0>>, <<255, 255>>}
StatusBytes == {0, 127, 128, 255}
FlagBytes == (0..15) \cup {16, 255}
Markers == {0, STX, ETX, 255}

\* Channel ch carries the word w, the other channels carry 235.
ChannelBytes(ch, w) ==
    [j \in 1..8 |-> IF j = 2 * ch + 1 THEN w[1]
                    ELSE IF j = 2 * ch + 2 THEN w[2]
                    ELSE IF j % 2 = 1 THEN 0 ELSE 235]

\* The frame of the end-to-end scenario: words 235, -50, 0, 1000.
ScenarioBytes == <<0, 235, 255, 206, 0, 0, 3, 232>>

\* Frames of 45 to 45 + extra bytes with both markers right.
ValidFrames(extra) ==
    { MkFrame(len, STX, b1, ChannelBytes(ch, w), ol, res, ETX) :
        len \in FrameLen..(FrameLen + extra), b1 \in StatusBytes,
        ch \in 0..3, w \in RawWords, ol \in FlagBytes, res \in FlagBytes }
    \cup { MkFrame(FrameLen, STX, b1, ScenarioBytes, ol, res, ETX) :
        b1 \in StatusBytes, ol \in FlagBytes, res \in FlagBytes }

\* Frames of least to 44 bytes.
ShortFrames(least) ==
    { MkFrame(len, b0, b1, ScenarioBytes, ol, 1, ETX) :
        len \in least..(FrameLen - 1), b0 \in Markers, b1 \in {0, 128}, ol \in {0, 2} }

\* Frames of 45 to 45 + extra bytes with a wrong marker.
BadMarkerFrames(extra) ==
    { MkFrame(len, b0, b1, ScenarioBytes, 2, 1, b44) :
        len \in FrameLen..(FrameLen + extra), b0 \in Markers, b44 \in Markers,
        b1 \in {0, 128} } \ ValidFrames(extra)

Frames(extra) ==
    ValidFrames(extra) \cup ShortFrames(0) \cup BadMarkerFrames(extra)

(***************************************************************************)
(* DecodeSpec: the decoder applied once to each frame of Frames.           *)
(***************************************************************************)
LoopAtRest ==
    /\ num_cycles = 0 /\ interval_sec = 1 /\ matplotlib = FALSE
    /\ cycle_count = 0 /\ spent = 0 /\ process_duration = 0
    /\ sleep_time = 0 /\ slept = 0
    /\ readings = <<>> /\ sheet = <<>> /\ file_rows = 0
    /\ x_data = 0 /\ y_data = EmptySeries /\ plot_i = 0 /\ console = <<>>
    /\ stop = "none" /\ final_saves = 0 /\ raised = "none"

loopVars == <<num_cycles, interval_sec, matplotlib, cycle_count, spent,
              process_duration, sleep_time, slept, readings, sheet, file_rows, x_data,
              y_data, plot_i, console, stop, final_saves, raised>>

DecodeInit ==
    /\ pc = "decode"
    /\ raw_data \in Frames(MaxExtra)
    /\ full_data = Pending
    /\ LoopAtRest

Decode ==
    /\ pc = "decode"
    /\ full_data' = parse_k204_packet(raw_data)
    /\ pc' = "decoded"
    /\ UNCHANGED <<raw_data, loopVars>>

DecodeNext == Decode

DecodeSpec == DecodeInit /\ [][DecodeNext]_vars

(***************************************************************************)
(* The frame as the wire format describes it, read independently of the    *)
(* decoder: arithmetic on the bytes, no bitwise operators.                 *)
(***************************************************************************)
WireBit(byte, i) == (byte \div (2 ^ i)) % 2 = 1
WireWord(data, i) ==
    ((data[8 + 2 * i] * 256 + data[9 + 2 * i] + 32768) % 65536) - 32768
WireValid(data) ==
    /\ Len(data) >= 45
    /\ data[1] = 2
    /\ data[45] = 3
ChannelNames == <<"T1", "T2", "T3", "T4">>
HasChannel(d, i) ==
    /\ d.tag = "dict"
    /\ \E k \in 1..Len(d.current_temperatures) :
           d.current_temperatures[k][1] = ChannelNames[i + 1]
ChannelOf(d, i) == Lookup(d.current_temperatures, ChannelNames[i + 1])
Decoded == pc = "decoded" /\ full_data.tag = "dict"

\* C1: every frame shorter than 45 bytes, and every frame whose byte 0 is not
\* 0x02 or whose byte 44 is not 0x03, decodes to None without an IndexError;
\* every other frame (length >= 45, both markers right) decodes to a reading,
\* so the struct.error branch is never the one that returns.
C1_UnrecognizedExactlyWhenMalformed ==
    pc = "decoded" =>
        /\ full_data # IndexError
        /\ ~WireValid(raw_data) => full_data = None
        /\ WireValid(raw_data) => full_data.tag = "dict"

C1_Witness ==
    /\ pc = "decoded"
    /\ Len(raw_data) = 44
    /\ raw_data[1] = 2
    /\ full_data = None

\* C2: in a decoded reading, channel T(i+1) is the OL sentinel when bit i of
\* byte 39 is set, whatever the raw word and the resolution bit, and is a
\* number (never OL) when that bit is clear.
C2_OverLimitPrecedence ==
    Decoded =>
        \A i \in 0..3 :
            /\ HasChannel(full_data, i)
            /\ IF WireBit(raw_data[40], i)
               THEN ChannelOf(full_data, i) = OL
               ELSE ChannelOf(full_data, i).kind = "float"

C2_Witness ==
    /\ Decoded
    /\ \E i \in 0..3 :
           /\ WireBit(raw_data[40], i)
           /\ WireWord(raw_data, i) = 0
           /\ WireBit(raw_data[44], i)
           /\ ChannelOf(full_data, i) = OL
    /\ \E i \in 0..3 :
           /\ ~WireBit(raw_data[40], i)
           /\ ChannelOf(full_data, i) = Float(WireWord(raw_data, i))

\* C3: a channel whose over-limit bit is clear decodes to the signed
\* big-endian word at bytes 7+2i, 8+2i divided by 1 when bit i of byte 43 is
\* set and by 10, without truncation, when it is clear (in tenths: the word
\* times 10, or the word itself).
C3_ResolutionScaling ==
    Decoded =>
        \A i \in 0..3 :
            ~WireBit(raw_data[40], i) =>
                /\ HasChannel(full_data, i)
                /\ WireWord(raw_data, i) \in -32768..32767
                /\ ChannelOf(full_data, i) =
                       Float(IF WireBit(raw_data[44], i)
                             THEN 10 * WireWord(raw_data, i)
                             ELSE WireWord(raw_data, i))

\* raw 235 with the bit clear is 23.5, raw -50 with the bit clear is -5.0,
\* raw 1000 with the bit set is 1000.0.
C3_Witness ==
    /\ Decoded
    /\ WireWord(raw_data, 0) = 235 /\ ~WireBit(raw_data[44], 0)
    /\ ChannelOf(full_data, 0) = Float(235)
    /\ WireWord(raw_data, 1) = -50 /\ ~WireBit(raw_data[44], 1)
    /\ ChannelOf(full_data, 1) = Float(-50)
    /\ WireWord(raw_data, 3) = 1000 /\ WireBit(raw_data[44], 3)
    /\ ChannelOf(full_data, 3) = Float(10000)

\* C4: the unit of a decoded reading is Celsius exactly when bit 7 of byte 1
\* is set and Fahrenheit exactly when it is clear, whatever the other bits of
\* byte 1 and the rest of the frame are.
C4_UnitFromBit7 ==
    Decoded =>
        /\ raw_data[2] >= 128 => full_data.unit = Celsius
        /\ raw_data[2] < 128 => full_data.unit = Fahrenheit

C4_Witness ==
    /\ Decoded
    /\ raw_data[2] = 127
    /\ raw_data[40] = 255
    /\ full_data.unit = Fahrenheit

\* C5: the channel mapping of every decoded reading has exactly the keys T1,
\* T2, T3, T4, in that order, each mapped to a number or to the OL sentinel.
C5_FourChannels ==
    Decoded =>
        /\ DictKeys(full_data.current_temperatures) = ChannelNames
        /\ \A k \in 1..Len(full_data.current_temperatures) :
               full_data.current_temperatures[k][2].kind \in {"OL", "float"}

C5_Witness ==
    /\ Decoded
    /\ raw_data[40] = 15
    /\ \A i \in 0..3 : HasChannel(full_data, i) /\ ChannelOf(full_data, i) = OL

(***************************************************************************)
(* The acquisition loop of __main__ (lines 226-380).                       *)
(*                                                                         *)
(* Positions: header_save (256-260), check (289-291), read (293-301),      *)
(* route (303), save (319), plot (322), plot_label (326), plot_channels    *)
(* (328-343), console (350), timing (357-362), sleep (362), except         *)
(* (364-367), finally (368-372), show (372), final_save (374-378), done    *)
(* (380), exit (260: exit(1)), ended (an exception left the try            *)
(* statement).  The chart update is split at the calls into matplotlib,    *)
(* where a KeyboardInterrupt leaves x_data and the y_data lists of         *)
(* different lengths.  The timestamp columns of a row (date, elapsed time, *)
(* seconds) are left out of the row.                                       *)
(***************************************************************************)
TryPcs == {"check", "read", "route", "save", "plot", "plot_label", "plot_channels",
           "console", "timing", "sleep"}
EndPcs == {"done", "exit", "ended"}

\* What the serial port gives one call of read_k204_data: an exception out
\* of serial.Serial / write / read, or the bytes ser.read(45) returned.
TransportError == [exc |-> TRUE, bytes |-> <<>>]
Received(bytes) == [exc |-> FALSE, bytes |-> bytes]

FrameA == MkFrame(FrameLen, STX, 128, ScenarioBytes, 2, 1, ETX)
FrameB == MkFrame(FrameLen, STX, 0, ChannelBytes(0, <<255, 255>>), 0, 0, ETX)
LoopFrames == {<<>>, FrameA, FrameB}
Transport == {TransportError} \cup {Received(f) : f \in LoopFrames}

\* read_k204_data: except Exception -> None, else the decoder's result.
read_k204_data(io) == IF io.exc THEN None ELSE parse_k204_packet(io.bytes)

\* if full_data: None is falsy, the two-key dict is truthy.
Truthy(value) == value # None

\* The row of lines 308-317, without its three time columns.
Row(data) ==
    LET temps == data.current_temperatures
    IN  <<Lookup(temps, "T1"), Lookup(temps, "T2"), Lookup(temps, "T3"),
          Lookup(temps, "T4"), data.unit>>

\* y_data[key] gets None (a gap) for 'OL', the value otherwise (329-334).
Gap == [kind |-> "gap"]
Plotted(val) == IF val = OL THEN Gap ELSE val

\* Line 290: num_cycles > 0 and cycle_count >= num_cycles.
CountReachedLate(n, count) == n > 0 /\ count > n
CountReached(n, count) == n > 0 /\ count >= n

\* Line 360: num_cycles == 0 or cycle_count < num_cycles.
MoreCycles(n, count) == n = 0 \/ count < n

Init ==
    /\ pc = "header_save"
    /\ raw_data = <<>>
    /\ full_data = Pending
    /\ num_cycles \in (-1)..MaxCycles
    /\ interval_sec \in 0..MaxInterval
    /\ matplotlib \in BOOLEAN
    /\ cycle_count = 0 /\ spent = 0 /\ process_duration = 0
    /\ sleep_time = 0 /\ slept = 0
    /\ readings = <<>> /\ sheet = <<>> /\ file_rows = 0
    /\ x_data = 0 /\ y_data = EmptySeries /\ plot_i = 0 /\ console = <<>>
    /\ stop = "none" /\ final_saves = 0 /\ raised = "none"

\* Lines 256-260: the first save; PermissionError ends the program, exit(1).
HeaderSave ==
    /\ pc = "header_save"
    /\ \E ok \in BOOLEAN : pc' = IF ok THEN "check" ELSE "exit"
    /\ UNCHANGED <<raw_data, full_data, num_cycles, interval_sec, matplotlib,
                   cycle_count, spent, process_duration, sleep_time, slept,
                   readings, sheet, file_rows, x_data, y_data, plot_i, console, stop,
                   final_saves, raised>>

\* Lines 289-294: break, or count the cycle and take loop_start.
LoopCheck ==
    /\ pc = "check"
    /\ IF CountReached(num_cycles, cycle_count)
       THEN /\ pc' = "finally"
            /\ stop' = "count"
            /\ UNCHANGED <<cycle_count, spent, slept>>
       ELSE /\ cycle_count < MaxCycles
            /\ cycle_count' = cycle_count + 1
            /\ spent' = 0
            /\ slept' = 0
            /\ pc' = "read"
            /\ UNCHANGED stop
    /\ UNCHANGED <<raw_data, full_data, num_cycles, interval_sec, matplotlib,
                   process_duration, sleep_time, readings, sheet, file_rows,
                   x_data, y_data, plot_i, console, final_saves, raised>>

\* Line 301: full_data = read_k204_data(port); the call takes d ticks.
Read ==
    /\ pc = "read"
    /\ \E io \in Transport, d \in 0..MaxDur :
           /\ raw_data' = IF io.exc THEN raw_data ELSE io.bytes
           /\ full_data' = read_k204_data(io)
           /\ readings' = Append(readings, read_k204_data(io))
           /\ spent' = spent + d
    /\ pc' = "route"
    /\ UNCHANGED <<num_cycles, interval_sec, matplotlib, cycle_count,
                   process_duration, sleep_time, slept, sheet, file_rows,
                   x_data, y_data, plot_i, console, stop, final_saves, raised>>

\* Lines 303-318: a reading is appended to the worksheet.
RouteReading ==
    /\ pc = "route"
    /\ Truthy(full_data)
    /\ sheet' = Append(sheet, Row(full_data))
    /\ pc' = "save"
    /\ UNCHANGED <<raw_data, full_data, num_cycles, interval_sec, matplotlib,
                   cycle_count, spent, process_duration, sleep_time, slept,
                   readings, file_rows, x_data, y_data, plot_i, console, stop,
                   final_saves, raised>>

\* Lines 353-354: no reading, "Keine Daten empfangen."
NoDataAborts ==
    /\ pc = "route"
    /\ ~Truthy(full_data)
    /\ console' = Append(console, <<cycle_count, "nodata">>)
    /\ pc' = "finally"
    /\ UNCHANGED <<raw_data, full_data, num_cycles, interval_sec, matplotlib,
                   cycle_count, spent, process_duration, sleep_time, slept,
                   readings, sheet, file_rows, x_data, y_data, plot_i, stop,
                   final_saves, raised>>
RouteNoData ==
    /\ pc = "route"
    /\ ~Truthy(full_data)
    /\ console' = Append(console, <<cycle_count, "nodata">>)
    /\ pc' = "timing"
    /\ UNCHANGED <<raw_data, full_data, num_cycles, interval_sec, matplotlib,
                   cycle_count, spent, process_duration, sleep_time, slept,
                   readings, sheet, file_rows, x_data, y_data, plot_i, stop,
                   final_saves, raised>>

\* Line 319: wb.save(filename) writes the worksheet or raises PermissionError.
SaveSkipped ==
    /\ pc = "save"
    /\ pc' = "plot"
    /\ UNCHANGED <<file_rows, stop>>
    /\ UNCHANGED <<raw_data, full_data, num_cycles, interval_sec, matplotlib,
                   cycle_count, spent, process_duration, sleep_time, slept,
                   readings, sheet, x_data, y_data, plot_i, console, final_saves,
                   raised>>
Save ==
    /\ pc = "save"
    /\ \E ok \in BOOLEAN :
           IF ok
           THEN /\ file_rows' = Len(sheet)
                /\ pc' = "plot"
                /\ UNCHANGED stop
           ELSE /\ pc' = "except"
                /\ stop' = "sink"
                /\ UNCHANGED file_rows
    /\ UNCHANGED <<raw_data, full_data, num_cycles, interval_sec, matplotlib,
                   cycle_count, spent, process_duration, sleep_time, slept,
                   readings, sheet, x_data, y_data, plot_i, console, final_saves,
                   raised>>

\* Lines 322-323: without matplotlib the chart is skipped; with it the
\* point's x is appended and ax.set_ylabel (line 326) is entered.
Plot ==
    /\ pc = "plot"
    /\ IF matplotlib
       THEN /\ x_data' = x_data + 1
            /\ pc' = "plot_label"
       ELSE /\ pc' = "console"
            /\ UNCHANGED x_data
    /\ UNCHANGED <<raw_data, full_data, num_cycles, interval_sec, matplotlib,
                   cycle_count, spent, process_duration, sleep_time, slept,
                   readings, sheet, file_rows, y_data, plot_i, console, stop,
                   final_saves, raised>>

\* Lines 326-328: ax.set_ylabel returns, the for loop over the channels starts.
PlotLabel ==
    /\ pc = "plot_label"
    /\ plot_i' = 0
    /\ pc' = "plot_channels"
    /\ UNCHANGED <<raw_data, full_data, num_cycles, interval_sec, matplotlib,
                   cycle_count, spent, process_duration, sleep_time, slept,
                   readings, sheet, file_rows, x_data, y_data, console, stop,
                   final_saves, raised>>

\* Lines 328-336, one iteration: y_data[key] gets the channel's value or a
\* gap, then lines[i].set_data is entered.
PlotChannel ==
    /\ pc = "plot_channels"
    /\ plot_i < Len(channel_keys)
    /\ LET key == channel_keys[plot_i + 1]
           val == Lookup(full_data.current_temperatures, key)
       IN  y_data' = [y_data EXCEPT ![key] = Append(@, Plotted(val))]
    /\ plot_i' = plot_i + 1
    /\ UNCHANGED <<pc, raw_data, full_data, num_cycles, interval_sec, matplotlib,
                   cycle_count, spent, process_duration, sleep_time, slept,
                   readings, sheet, file_rows, x_data, console, stop,
                   final_saves, raised>>

\* Lines 339-343: after the last channel, relim, autoscale_view, plt.pause.
PlotDraw ==
    /\ pc = "plot_channels"
    /\ plot_i = Len(channel_keys)
    /\ pc' = "console"
    /\ UNCHANGED <<raw_data, full_data, num_cycles, interval_sec, matplotlib,
                   cycle_count, spent, process_duration, sleep_time, slept,
                   readings, sheet, file_rows, x_data, y_data, plot_i, console,
                   stop, final_saves, raised>>

\* Lines 346-352: the console line of a reading.
Console ==
    /\ pc = "console"
    /\ console' = Append(console, <<cycle_count, "reading">>)
    /\ pc' = "timing"
    /\ UNCHANGED <<raw_data, full_data, num_cycles, interval_sec, matplotlib,
                   cycle_count, spent, process_duration, sleep_time, slept,
                   readings, sheet, file_rows, x_data, y_data, plot_i, stop,
                   final_saves, raised>>

\* Lines 357-361: the sleep is asked for only before another cycle and only
\* when it is positive.
Timing ==
    /\ pc = "timing"
    /\ process_duration' = spent
    /\ sleep_time' = interval_sec - spent
    /\ pc' = IF MoreCycles(num_cycles, cycle_count) /\ interval_sec - spent > 0
             THEN "sleep" ELSE "check"
    /\ UNCHANGED <<raw_data, full_data, num_cycles, interval_sec, matplotlib,
                   cycle_count, spent, slept, readings, sheet, file_rows,
                   x_data, y_data, plot_i, console, stop, final_saves, raised>>

\* Line 362: time.sleep(sleep_time) returns after sleep_time.
Sleep ==
    /\ pc = "sleep"
    /\ slept' = slept + sleep_time
    /\ pc' = "check"
    /\ UNCHANGED <<raw_data, full_data, num_cycles, interval_sec, matplotlib,
                   cycle_count, spent, process_duration, sleep_time, readings,
                   sheet, file_rows, x_data, y_data, plot_i, console, stop,
                   final_saves, raised>>

\* Ctrl+C while the try block runs: read_k204_data's "except Exception" does
\* not catch KeyboardInterrupt, the handler of line 364 does.
KeyboardInterrupt ==
    /\ pc \in TryPcs
    /\ pc' = "except"
    /\ stop' = "interrupt"
    /\ UNCHANGED <<raw_data, full_data, num_cycles, interval_sec, matplotlib,
                   cycle_count, spent, process_duration, sleep_time, slept,
                   readings, sheet, file_rows, x_data, y_data, plot_i, console,
                   final_saves, raised>>

\* Lines 364-367: either handler prints its message.
Handler ==
    /\ pc = "except"
    /\ pc' = "finally"
    /\ UNCHANGED <<raw_data, full_data, num_cycles, interval_sec, matplotlib,
                   cycle_count, spent, process_duration, sleep_time, slept,
                   readings, sheet, file_rows, x_data, y_data, plot_i, console, stop,
                   final_saves, raised>>

\* Lines 368-372: with matplotlib, plt.show() blocks until the window closes.
Finally ==
    /\ pc = "finally"
    /\ pc' = IF matplotlib THEN "show" ELSE "final_save"
    /\ UNCHANGED <<raw_data, full_data, num_cycles, interval_sec, matplotlib,
                   cycle_count, spent, process_duration, sleep_time, slept,
                   readings, sheet, file_rows, x_data, y_data, plot_i, console, stop,
                   final_saves, raised>>

\* Line 372: the window is closed, plt.show() returns.
ShowReturns ==
    /\ pc = "show"
    /\ pc' = "final_save"
    /\ UNCHANGED <<raw_data, full_data, num_cycles, interval_sec, matplotlib,
                   cycle_count, spent, process_duration, sleep_time, slept,
                   readings, sheet, file_rows, x_data, y_data, plot_i, console, stop,
                   final_saves, raised>>

\* Line 372: Ctrl+C while plt.show() blocks.  The finally block has no
\* handler around plt.show(): the exception leaves the try statement, lines
\* 374-380 are not run.
ShowInterrupted ==
    /\ pc = "show"
    /\ raised' = "KeyboardInterrupt"
    /\ pc' = "ended"
    /\ UNCHANGED <<raw_data, full_data, num_cycles, interval_sec, matplotlib,
                   cycle_count, spent, process_duration, sleep_time, slept,
                   readings, sheet, file_rows, x_data, y_data, plot_i, console, stop,
                   final_saves>>

\* Lines 374-380: the last save; the bare except swallows whatever it raises.
FinalSave ==
    /\ pc = "final_save"
    /\ final_saves' = final_saves + 1
    /\ \E ok \in BOOLEAN : file_rows' = IF ok THEN Len(sheet) ELSE file_rows
    /\ pc' = "done"
    /\ UNCHANGED <<raw_data, full_data, num_cycles, interval_sec, matplotlib,
                   cycle_count, spent, process_duration, sleep_time, slept,
                   readings, sheet, x_data, y_data, plot_i, console, stop, raised>>

\* The steps the program takes by itself, and the ones the user takes.
ProgramStep ==
    \/ HeaderSave
    \/ LoopCheck
    \/ Read
    \/ RouteReading
    \/ RouteNoData
    \/ Save
    \/ Plot
    \/ PlotLabel
    \/ PlotChannel
    \/ PlotDraw
    \/ Console
    \/ Timing
    \/ Sleep
    \/ Handler
    \/ Finally
    \/ FinalSave

Next ==
    \/ HeaderSave
    \/ LoopCheck
    \/ Read
    \/ RouteReading
    \/ RouteNoData
    \/ Save
    \/ Plot
    \/ PlotLabel
    \/ PlotChannel
    \/ PlotDraw
    \/ Console
    \/ Timing
    \/ Sleep
    \/ KeyboardInterrupt
    \/ Handler
    \/ Finally
    \/ ShowReturns
    \/ ShowInterrupted
    \/ FinalSave

Spec == Init /\ [][Next]_vars

\* The interpreter keeps running the program: a step that is possible is
\* taken.  Nothing is assumed of the user (Ctrl+C, closing the window).
FairSpec == Spec /\ WF_vars(ProgramStep)

(***************************************************************************)
(* What the worksheet should hold, told from the history of readings.      *)
(***************************************************************************)
Max0(n) == IF n > 0 THEN n ELSE 0
Front(s) == SubSeq(s, 1, Len(s) - 1)
ExpectedRow(reading) ==
    <<ChannelOf(reading, 0), ChannelOf(reading, 1), ChannelOf(reading, 2),
      ChannelOf(reading, 3), reading.unit>>
RECURSIVE RowsOf(_)
RowsOf(rs) ==
    IF rs = <<>> THEN <<>>
    ELSE (IF Head(rs).tag = "dict" THEN <<ExpectedRow(Head(rs))>> ELSE <<>>)
         \o RowsOf(Tail(rs))
LoopOver == pc \notin (TryPcs \cup {"header_save"})

\* C6: the step that handles a cycle without a reading (None from the
\* decoder or from a failed transport read) appends no row, saves nothing,
\* draws nothing, writes the "no data" line of that cycle and goes on to the
\* timing step, the one a successful cycle goes on to; the loop is not ended.
C6_NoDataCycleContinues ==
    [][ (pc = "route" /\ full_data = None /\ pc' # "except") =>
            /\ sheet' = sheet
            /\ file_rows' = file_rows
            /\ x_data' = x_data
            /\ console' = Append(console, <<cycle_count, "nodata">>)
            /\ pc' = "timing"
            /\ stop' = "none" ]_vars

C6_Witness ==
    /\ pc = "read"
    /\ cycle_count = 2
    /\ readings = <<None>>
    /\ sheet = <<>>
    /\ console = << <<1, "nodata">> >>
    /\ stop = "none"

\* C7: when the program has ended after the loop stopped (count reached,
\* KeyboardInterrupt in a cycle, PermissionError of a save in a cycle), the
\* final save of the finally block has been attempted, once.
C7_FinalSaveAttempted ==
    (pc \in {"done", "ended"} /\ stop \in {"count", "interrupt", "sink"}) =>
        final_saves = 1

\* C8: a run configured with N > 0 cycles stops on its count only after
\* exactly N cycles and N transport reads, never starts a cycle beyond N, and
\* its loop does end; a run configured with 0 never stops on its count, only
\* on an interrupt or a sink error.
C8_Counts ==
    /\ stop = "count" =>
          /\ num_cycles > 0
          /\ cycle_count = num_cycles
          /\ Len(readings) = num_cycles
    /\ num_cycles > 0 => cycle_count <= num_cycles
    /\ num_cycles = 0 => stop \in {"none", "interrupt", "sink"}
    /\ Len(readings) \in {cycle_count - 1, cycle_count}
    /\ pc \in (TryPcs \ {"read"}) => Len(readings) = cycle_count
C8_ExactlyNCycles ==
    /\ []C8_Counts
    /\ [](num_cycles > 0 => <>LoopOver)
    /\ [][cycle_count' \in {cycle_count, cycle_count + 1}]_vars

C8_Witness ==
    /\ pc = "done"
    /\ stop = "count"
    /\ num_cycles = 2
    /\ cycle_count = 2
    /\ Len(readings) = 2

\* C9: whatever the configured cycle count and interval, when a cycle is
\* followed by another one, the time slept between them is exactly
\* max(0, interval - time spent in the cycle).
C9_SleepsTheRemainder ==
    [][ (pc = "check" /\ pc' = "read" /\ cycle_count >= 1) =>
            slept = Max0(interval_sec - process_duration) ]_vars

\* C10: the worksheet holds one row per reading that decoded, in cycle order,
\* each with that cycle's T1..T4 and unit; there are never more rows than
\* cycles; between cycles the rows are exactly those of the cycles that
\* decoded; a point reaches the chart only after its row is in the saved
\* file, and a transport read begins only with every row saved (and drawn,
\* when there is a chart).
C10_OneRowPerReading ==
    /\ Len(sheet) <= cycle_count
    /\ sheet \in {RowsOf(readings), RowsOf(Front(readings))}
    /\ pc = "route" => sheet = RowsOf(Front(readings))
    /\ pc \in (TryPcs \ {"route"}) => sheet = RowsOf(readings)
    /\ Len(sheet) = Cardinality({k \in 1..Len(readings) : readings[k] # None})
           \/ Len(sheet) + 1 = Cardinality({k \in 1..Len(readings) : readings[k] # None})
    /\ x_data <= file_rows
    /\ file_rows <= Len(sheet)
    /\ \A k \in DOMAIN y_data : Len(y_data[k]) <= x_data
    /\ pc = "read" => file_rows = Len(sheet)
    /\ (pc = "read" /\ matplotlib) =>
           /\ x_data = Len(sheet)
           /\ \A k \in DOMAIN y_data : Len(y_data[k]) = Len(sheet)

C10_Witness ==
    /\ pc = "check"
    /\ cycle_count = 2
    /\ Len(sheet) = 2
    /\ sheet[1] # sheet[2]
    /\ sheet[1][2] = OL
    /\ file_rows = 2
    /\ x_data = 2

====
